---- MODULE Spec2Model ----
(***************************************************************************)
(* Model of useMySQL.py: the MySQLDatabase connection pool (a bounded      *)
(* queue.Queue of pymysql connections), its connection factory             *)
(* create_conn, get_conn / release_conn, execute with its retry loop and   *)
(* close_all_connections, run by concurrent caller threads.                *)
(***************************************************************************)
EXTENDS Integers, Sequences, FiniteSets, TLC

\* ---------------------------------------------------------------- bounds
MaxPool == 2          \* pool_size ranges over 1..MaxPool
MaxRetries == 2       \* execute(retries=R), R in 0..MaxRetries
MaxRecords == 5       \* batch_insert: len(data_list) in 0..MaxRecords
MaxBatch == 2         \* batch_insert: batch_size in 1..MaxBatch

\* ------------------------------------------------------ program constants
DefaultCreateRetries == 3      \* create_conn(self, retries=3)
DefaultExecRetries == 3        \* execute(self, sql, params=None, retries=3, ...)

Threads == {"t1", "t2"}
None == 0
ConnIds == 1..(MaxPool + Cardinality(Threads))
Host == "host"
Port == "port"
\* retry_backoff_base as a fraction <<numerator, denominator>>
DefaultBase == <<3, 2>>
Bases == {DefaultBase, <<1, 2>>}
\* (sql, params, fetch, lastrowid) of an execute() call
Requests ==
    { [sql |-> "select", params |-> "None", fetch |-> TRUE,  lastrowid |-> FALSE],
      [sql |-> "insert", params |-> "row",  fetch |-> FALSE, lastrowid |-> TRUE] }
NoReq == [sql |-> "", params |-> "", fetch |-> FALSE, lastrowid |-> FALSE]
\* longest outage the environment starts: connect attempts that fail in a row
MaxDown == DefaultCreateRetries
\* what one cursor.execute/fetch/commit can do
RunOutcomes == {"ok", "OperationalError", "MySQLError", "Exception"}

VARIABLES
    pool_size,            \* self.pool_size
    retry_backoff_base,   \* self.retry_backoff_base
    pool,                 \* self.pool: the queue, head first
    open,                 \* connection objects that are open (not closed)
    ctor,                 \* progress of __init__: [state, i]
    downFor,              \* environment: how many coming connect attempts fail
    callers,              \* the threads that use the pool in this run
    th                    \* per thread: control point, locals, result of the call

vars == <<pool_size, retry_backoff_base, pool, open, ctor, downFor, callers, th>>

\* ---------------------------------------------------------------- helpers
Range(s) == {s[i] : i \in 1..Len(s)}
\* Mul that adds instead: delay += self.retry_backoff_base
MulAdd(a, b) == <<a[1] * b[2] + b[1] * a[2], a[2] * b[2]>>
Mul(a, b) == <<a[1] * b[1], a[2] * b[2]>>
\* a < b for fractions with positive denominators
Less(a, b) == a[1] * b[2] < b[1] * a[2]

Concurrent == Cardinality(callers) > 1
Held == {th[t].conn : t \in Threads} \ {None}
Live == open \cup Held \cup Range(pool)
\* a new connection object: an identity no live object carries
FreshId == CHOOSE c \in ConnIds \ Live : \A d \in ConnIds \ Live : c <= d

NoBatch == [active |-> FALSE, data |-> <<>>, k |-> 0, i |-> 0, calls |-> <<>>]
NoOutcome == [kind |-> "none", info |-> <<"", "">>, value |-> "none"]
Frame0 == [pc |-> "idle", ctx |-> "none", conn |-> None, req |-> NoReq,
           R |-> 0, retries |-> 0, delay |-> <<0, 1>>, slept |-> <<>>,
           outcome |-> NoOutcome,
           \* observations of the call in progress
           src |-> "none", got |-> FALSE, rel |-> 0, failed |-> 0, before |-> 0,
           opErrs |-> 0, connects |-> 0, lastRun |-> "none", relClosed |-> FALSE,
           \* batch_insert in progress: data_list, batch_size, the loop index i
           \* and the params of the execute() calls issued so far
           bi |-> NoBatch]

\* the inputs the callers choose from; runs with concurrent callers use one
\* request and the full retry budget
RequestChoices == IF Concurrent THEN {CHOOSE r \in Requests : r.fetch} ELSE Requests
RetryChoices == IF Concurrent THEN {MaxRetries} ELSE 0..MaxRetries
CreateRetryChoices == IF Concurrent THEN {DefaultCreateRetries} ELSE 0..DefaultCreateRetries
\* the observations (before, failed, and the frame of a finished call) are
\* kept in runs with a single caller only
Obs(x) == IF Concurrent THEN 0 ELSE x
\* self.execute(sql_base, params=batch_data) inside batch_insert is over: a
\* return goes on with the next i of range(0, total_count, batch_size), an
\* exception leaves batch_insert
BatchReturn(f) ==
    IF f.outcome.kind = "result"
    THEN [f EXCEPT !.pc = "bi_loop", !.ctx = "batch_insert", !.conn = None,
                   !.bi.i = @ + f.bi.k]
    ELSE [f EXCEPT !.pc = "done", !.ctx = "batch_insert", !.conn = None]

Finished(f) == IF Concurrent THEN [Frame0 EXCEPT !.pc = "done"]
               ELSE IF f.bi.active /\ f.ctx = "execute" THEN BatchReturn(f)
               ELSE [f EXCEPT !.pc = "done", !.conn = None]

\* ------------------------------------------------------------ create_conn
\* The loop of create_conn: d is the number of coming connect attempts that
\* fail with pymysql.MySQLError.  Result: what the call does (return a
\* connection, raise DatabaseConnectionError, or fall off the loop and
\* return None), the connect attempts made, the sleeps taken, the outage left.
RECURSIVE CreateLoop(_, _, _, _, _)
CreateLoop(retries, delay, d, attempts, slept) ==
    IF retries > 0
    THEN IF d = 0
         THEN [res |-> "conn", attempts |-> attempts + 1, slept |-> slept, down |-> d]
         ELSE IF retries - 1 <= 0
              THEN [res |-> "raise", attempts |-> attempts + 1,
                    slept |-> Append(slept, delay), down |-> d - 1]
              ELSE CreateLoop(retries - 1, Mul(delay, retry_backoff_base), d - 1,
                              attempts + 1, Append(slept, delay))
    ELSE [res |-> "none", attempts |-> attempts, slept |-> slept, down |-> d]

create_conn(retries) == CreateLoop(retries, retry_backoff_base, downFor, 0, <<>>)

ConnectionError == [kind |-> "DatabaseConnectionError", info |-> <<Host, Port>>,
                    value |-> "none"]

\* ------------------------------------------------------------ __init__
Init ==
    /\ pool_size \in 1..MaxPool
    /\ pool = <<>>
    /\ open = {}
    /\ ctor = [state |-> "filling", i |-> 0]
    /\ downFor \in 0..MaxDown
    /\ \/ callers = {"t1"} /\ retry_backoff_base \in Bases
       \/ callers = Threads /\ retry_backoff_base = DefaultBase
    /\ th = [t \in Threads |-> Frame0]

\* one iteration of: for _ in range(pool_size): self.pool.put(self.create_conn())
CtorFill ==
    /\ ctor.state = "filling"
    /\ ctor.i < pool_size
    /\ LET r == create_conn(DefaultCreateRetries) IN
        /\ downFor' = r.down
        /\ IF r.res = "conn"
           THEN /\ pool' = Append(pool, FreshId)
                /\ open' = open \cup {FreshId}
                /\ ctor' = [ctor EXCEPT !.i = @ + 1]
           ELSE /\ ctor' = [ctor EXCEPT !.state = "failed"]
                /\ UNCHANGED <<pool, open>>
    /\ UNCHANGED <<pool_size, retry_backoff_base, callers, th>>

\* CtorDone leaving the loop one iteration early
CtorDoneEarly ==
    /\ ctor.state = "filling"
    /\ ctor.i >= pool_size - 1
    /\ ctor' = [ctor EXCEPT !.state = "done"]
    /\ UNCHANGED <<pool_size, retry_backoff_base, pool, open, downFor, callers, th>>

\* the loop of __init__ is over: the object exists
CtorDone ==
    /\ ctor.state = "filling"
    /\ ctor.i >= pool_size
    /\ ctor' = [ctor EXCEPT !.state = "done"]
    /\ UNCHANGED <<pool_size, retry_backoff_base, pool, open, downFor, callers, th>>

\* ------------------------------------------------------------ environment
\* the server (or the network) starts refusing the next k connect attempts
Outage ==
    /\ ctor.state # "failed"
    /\ \E k \in 0..MaxDown : k # downFor /\ downFor' = k
    /\ UNCHANGED <<pool_size, retry_backoff_base, pool, open, ctor, callers, th>>

\* ------------------------------------------------------------ release_conn
\* release_conn on a queue that takes one connection more than pool_size
release_conn_overfull(q, c) ==
    IF Len(q) <= pool_size
    THEN [pool |-> Append(q, c), closed |-> {}]
    ELSE [pool |-> q, closed |-> {c}]

\* release_conn on a queue that is full one connection early
release_conn_early_full(q, c) ==
    IF Len(q) + 1 < pool_size
    THEN [pool |-> Append(q, c), closed |-> {}]
    ELSE [pool |-> q, closed |-> {c}]

\* put_nowait(conn); on queue.Full close the connection instead
release_conn(q, c) ==
    IF Len(q) < pool_size
    THEN [pool |-> Append(q, c), closed |-> {}]
    ELSE [pool |-> q, closed |-> {c}]

\* ------------------------------------------------------------ execute (1)
OperationFailed(req) ==
    [kind |-> "DatabaseOperationFailed", info |-> <<req.sql, req.params>>, value |-> "none"]

\* EnterLoop with the loop test off by one: while retries >= 0
EnterLoopOffByOne(f, q) ==
    IF f.retries >= 0
    THEN [f EXCEPT !.pc = "gc_get", !.conn = None, !.src = "none", !.failed = 0,
                   !.before = Obs(Len(q))]
    ELSE Finished([f EXCEPT !.outcome = OperationFailed(f.req)])

\* while retries > 0: conn = None; try: conn = self.get_conn() ...
\* after the loop: raise DatabaseOperationFailed(sql=sql, params=params)
\* (q is the queue when the test is made)
EnterLoop(f, q) ==
    IF f.retries > 0
    THEN [f EXCEPT !.pc = "gc_get", !.conn = None, !.src = "none", !.failed = 0,
                   !.before = Obs(Len(q))]
    ELSE Finished([f EXCEPT !.outcome = OperationFailed(f.req)])

\* the value execute returns on success
ResultOf(req) == IF req.fetch THEN "rows" ELSE IF req.lastrowid THEN "lastrowid" ELSE "True"

\* Classify with every pymysql.MySQLError swallowed and retried
ClassifyRetryAll(o) ==
    CASE o = "ok" -> "return"
      [] o = "OperationalError" -> "none"
      [] o = "MySQLError" -> "none"
      [] OTHER -> "Exception"

\* what the try block decides for an outcome o of cursor.execute/fetch/commit:
\* "return" the result, "none" (OperationalError is logged and swallowed),
\* or the exception that the bare raise re-raises
Classify(o) ==
    CASE o = "ok" -> "return"
      [] o = "OperationalError" -> "none"
      [] o = "MySQLError" -> "MySQLError"
      [] OTHER -> "Exception"

\* Completion with a query error wrapped into DatabaseOperationFailed
CompletionWrapped(pending, req) ==
    CASE pending = "return" ->
            [kind |-> "result", info |-> <<"", "">>, value |-> ResultOf(req)]
      [] pending = "DatabaseConnectionError" -> ConnectionError
      [] pending = "MySQLError" -> OperationFailed(req)
      [] OTHER -> [kind |-> pending, info |-> <<"", "">>, value |-> "none"]

\* what reaches the caller once the finally block is over
Completion(pending, req) ==
    CASE pending = "return" ->
            [kind |-> "result", info |-> <<"", "">>, value |-> ResultOf(req)]
      [] pending = "DatabaseConnectionError" -> ConnectionError
      [] OTHER -> [kind |-> pending, info |-> <<"", "">>, value |-> "none"]

\* Releases for a finally block that never releases
ReleasesNever(c) == FALSE

\* whether the finally block hands conn to release_conn: if conn:
Releases(c) == c # None

\* AttemptEnd that waits only when the attempt is going to be retried
AttemptEndSleepOnRetry(f, pending, n, q, full) ==
    LET g == [f EXCEPT !.conn = None,
                       !.retries = @ - 1,
                       !.slept = IF pending = "none" THEN Append(@, f.delay) ELSE @,
                       !.delay = Mul(@, retry_backoff_base),
                       !.got = (f.conn # None),
                       !.rel = n,
                       !.relClosed = full,
                       !.opErrs = IF pending = "none" THEN @ + 1 ELSE @]
    IN IF pending = "none"
       THEN EnterLoop(g, q)
       ELSE Finished([g EXCEPT !.outcome = Completion(pending, f.req)])

\* finally: if conn: self.release_conn(conn); retries -= 1; time.sleep(delay);
\*          delay *= self.retry_backoff_base
\* and then the return or raise the try block decided, or the loop test.
\* f is the frame, pending the decision of the try block, n the number of
\* release_conn calls made, q the queue after them, full whether release_conn
\* found the queue full.
AttemptEnd(f, pending, n, q, full) ==
    LET g == [f EXCEPT !.conn = None,
                       !.retries = @ - 1,
                       !.slept = Append(@, f.delay),
                       !.delay = Mul(@, retry_backoff_base),
                       !.got = (f.conn # None),
                       !.rel = n,
                       !.relClosed = full,
                       !.opErrs = IF pending = "none" THEN @ + 1 ELSE @]
    IN IF pending = "none"
       THEN EnterLoop(g, q)
       ELSE Finished([g EXCEPT !.outcome = Completion(pending, f.req)])

\* ------------------------------------------------------------ get_conn
\* where get_conn's caller goes on when get_conn returns a connection
AfterGetConn(f) == IF f.ctx = "execute" THEN "ex_run" ELSE "hold"

\* GcGetPingOk reading the head of the queue without taking it
GcPeekPingOk(t) ==
    /\ th[t].pc = "gc_get"
    /\ pool # <<>>
    /\ th' = [th EXCEPT ![t].conn = Head(pool), ![t].src = "pool",
                        ![t].pc = AfterGetConn(th[t])]
    /\ UNCHANGED <<pool_size, retry_backoff_base, pool, open, ctor, downFor, callers>>

\* conn = self.pool.get()  [blocks while the queue is empty]
\* conn.ping(reconnect=True) succeeds; return conn
GcGetPingOk(t) ==
    /\ th[t].pc = "gc_get"
    /\ pool # <<>>
    /\ pool' = Tail(pool)
    /\ th' = [th EXCEPT ![t].conn = Head(pool), ![t].src = "pool",
                        ![t].pc = AfterGetConn(th[t])]
    /\ UNCHANGED <<pool_size, retry_backoff_base, open, ctor, downFor, callers>>

\* GcGetPingFail returning the connection whose ping raised
GcGetPingFailReturns(t) ==
    /\ th[t].pc = "gc_get"
    /\ pool # <<>>
    /\ pool' = Tail(pool)
    /\ th' = [th EXCEPT ![t].conn = Head(pool), ![t].failed = Obs(@ + 1),
                        ![t].pc = AfterGetConn(th[t])]
    /\ UNCHANGED <<pool_size, retry_backoff_base, open, ctor, downFor, callers>>

\* conn = self.pool.get(); conn.ping(reconnect=True) raises; conn.close()
GcGetPingFail(t) ==
    /\ th[t].pc = "gc_get"
    /\ pool # <<>>
    /\ pool' = Tail(pool)
    /\ open' = open \ {Head(pool)}
    /\ th' = [th EXCEPT ![t].failed = Obs(@ + 1), ![t].pc = "gc_empty"]
    /\ UNCHANGED <<pool_size, retry_backoff_base, ctor, downFor, callers>>

\* GcEmptyCheck without the test of pool.empty(): always create_conn()
GcEmptyCheckAlwaysCreate(t) ==
    /\ th[t].pc = "gc_empty"
    /\ LET r == create_conn(DefaultCreateRetries) IN
        /\ downFor' = r.down
        /\ IF r.res = "conn"
           THEN /\ open' = open \cup {FreshId}
                /\ th' = [th EXCEPT ![t].conn = FreshId, ![t].src = "factory",
                                    ![t].pc = AfterGetConn(th[t])]
           ELSE /\ open' = open
                /\ th' = [th EXCEPT ![t] =
                            IF th[t].ctx = "execute"
                            THEN AttemptEnd([th[t] EXCEPT !.lastRun =
                                                 "DatabaseConnectionError"],
                                            "DatabaseConnectionError", 0, pool, FALSE)
                            ELSE Finished([th[t] EXCEPT !.outcome = ConnectionError])]
    /\ UNCHANGED <<pool_size, retry_backoff_base, pool, ctor, callers>>

\* GcEmptyCheck that also puts the connection of create_conn() into the queue
GcEmptyCheckEnqueues(t) ==
    /\ th[t].pc = "gc_empty"
    /\ IF pool # <<>>
       THEN /\ th' = [th EXCEPT ![t].pc = "gc_get"]
            /\ UNCHANGED <<pool, open, downFor>>
       ELSE LET r == create_conn(DefaultCreateRetries) IN
            /\ downFor' = r.down
            /\ IF r.res = "conn"
               THEN /\ open' = open \cup {FreshId}
                    /\ pool' = Append(pool, FreshId)
                    /\ th' = [th EXCEPT ![t].conn = FreshId, ![t].src = "factory",
                                        ![t].pc = AfterGetConn(th[t])]
               ELSE /\ open' = open
                    /\ pool' = pool
                    /\ th' = [th EXCEPT ![t] =
                                IF th[t].ctx = "execute"
                                THEN AttemptEnd([th[t] EXCEPT !.lastRun =
                                                     "DatabaseConnectionError"],
                                                "DatabaseConnectionError", 0, pool, FALSE)
                                ELSE Finished([th[t] EXCEPT !.outcome = ConnectionError])]
    /\ UNCHANGED <<pool_size, retry_backoff_base, ctor, callers>>

\* if self.pool.empty(): return self.create_conn()   else loop to pool.get().
\* A DatabaseConnectionError of create_conn leaves get_conn; inside execute
\* it is caught by "except Exception", re-raised, and the finally block runs.
GcEmptyCheck(t) ==
    /\ th[t].pc = "gc_empty"
    /\ IF pool # <<>>
       THEN /\ th' = [th EXCEPT ![t].pc = "gc_get"]
            /\ UNCHANGED <<open, downFor>>
       ELSE LET r == create_conn(DefaultCreateRetries) IN
            /\ downFor' = r.down
            /\ IF r.res = "conn"
               THEN /\ open' = open \cup {FreshId}
                    /\ th' = [th EXCEPT ![t].conn = FreshId, ![t].src = "factory",
                                        ![t].pc = AfterGetConn(th[t])]
               ELSE /\ open' = open
                    /\ th' = [th EXCEPT ![t] =
                                IF th[t].ctx = "execute"
                                THEN AttemptEnd([th[t] EXCEPT !.lastRun =
                                                     "DatabaseConnectionError"],
                                                "DatabaseConnectionError", 0, pool, FALSE)
                                ELSE Finished([th[t] EXCEPT !.outcome = ConnectionError])]
    /\ UNCHANGED <<pool_size, retry_backoff_base, pool, ctor, callers>>

\* ------------------------------------------------------------ execute (2)
\* a caller invokes execute(sql, params, retries=R, fetch, lastrowid)
CallExecute(t) ==
    /\ ctor.state = "done"
    /\ t \in callers
    /\ th[t].pc \in {"idle", "done"}
    /\ \E req \in RequestChoices, R \in RetryChoices :
        th' = [th EXCEPT ![t] =
                 EnterLoop([Frame0 EXCEPT !.ctx = "execute", !.req = req, !.R = R,
                                          !.retries = R, !.delay = retry_backoff_base],
                           pool)]
    /\ UNCHANGED <<pool_size, retry_backoff_base, pool, open, ctor, downFor, callers>>

\* with conn.cursor() as cursor: cursor.execute(sql, params) ...; conn.commit()
\* with outcome o, then the except clause it selects and the finally block
ExRun(t) ==
    /\ th[t].pc = "ex_run"
    /\ \E o \in RunOutcomes :
        LET f == th[t]
            rc == IF Releases(f.conn) THEN release_conn(pool, f.conn)
                                      ELSE [pool |-> pool, closed |-> {}]
            n == IF Releases(f.conn) THEN 1 ELSE 0
        IN /\ pool' = rc.pool
           /\ open' = open \ rc.closed
           /\ th' = [th EXCEPT ![t] = AttemptEnd([f EXCEPT !.lastRun = o], Classify(o),
                                                  n, rc.pool, rc.closed # {})]
    /\ UNCHANGED <<pool_size, retry_backoff_base, ctor, downFor, callers>>

\* ------------------------------------------------------------ direct callers
\* a caller invokes get_conn() itself
CallGetConn(t) ==
    /\ ctor.state = "done"
    /\ t \in callers
    /\ th[t].pc \in {"idle", "done"}
    /\ th' = [th EXCEPT ![t] = [Frame0 EXCEPT !.pc = "gc_get", !.ctx = "direct",
                                              !.before = Obs(Len(pool))]]
    /\ UNCHANGED <<pool_size, retry_backoff_base, pool, open, ctor, downFor, callers>>

\* a caller invokes create_conn(retries=R) itself
CallCreateConn(t) ==
    /\ ctor.state = "done"
    /\ t \in callers
    /\ th[t].pc \in {"idle", "done"}
    /\ \E R \in CreateRetryChoices :
        LET r == create_conn(R)
            f == [Frame0 EXCEPT !.ctx = "create", !.R = R, !.slept = r.slept,
                                !.connects = r.attempts]
        IN
        /\ downFor' = r.down
        /\ IF r.res = "conn"
           THEN /\ open' = open \cup {FreshId}
                /\ th' = [th EXCEPT ![t] = [f EXCEPT !.pc = "hold", !.conn = FreshId,
                                                     !.src = "caller"]]
           ELSE /\ open' = open
                /\ th' = [th EXCEPT ![t] = Finished([f EXCEPT !.outcome =
                              IF r.res = "raise" THEN ConnectionError
                              ELSE [kind |-> "result", info |-> <<"", "">>,
                                    value |-> "None"]])]
    /\ UNCHANGED <<pool_size, retry_backoff_base, pool, ctor, callers>>

\* the caller hands the connection it holds to release_conn(conn)
CallReleaseConn(t) ==
    /\ th[t].pc = "hold"
    /\ LET rc == release_conn(pool, th[t].conn) IN
        /\ pool' = rc.pool
        /\ open' = open \ rc.closed
        /\ th' = [th EXCEPT ![t] = Finished([th[t] EXCEPT !.got = TRUE, !.rel = 1,
                                                          !.relClosed = rc.closed # {}])]
    /\ UNCHANGED <<pool_size, retry_backoff_base, ctor, downFor, callers>>

\* ------------------------------------------------------------ batch_insert
Smaller(a, b) == IF a < b THEN a ELSE b

\* Slice with the upper end one short: data_list[i:i + batch_size - 1]
SliceShort(data, i, j) == SubSeq(data, i + 1, Smaller(j - 1, Len(data)))

\* the Python slice data[i:j] for 0 <= i <= j
Slice(data, i, j) == SubSeq(data, i + 1, Smaller(j, Len(data)))

\* a caller invokes batch_insert(table_name, columns, data_list, batch_size)
CallBatchInsert(t) ==
    /\ ctor.state = "done"
    /\ t \in callers
    /\ ~Concurrent
    /\ th[t].pc \in {"idle", "done"}
    /\ \E n \in 0..MaxRecords, k \in 1..MaxBatch :
        th' = [th EXCEPT ![t] =
                 [Frame0 EXCEPT !.pc = "bi_loop", !.ctx = "batch_insert",
                                !.bi = [active |-> TRUE, data |-> [j \in 1..n |-> j],
                                        k |-> k, i |-> 0, calls |-> <<>>]]]
    /\ UNCHANGED <<pool_size, retry_backoff_base, pool, open, ctor, downFor, callers>>

\* for i in range(0, total_count, batch_size):
\*     batch_data = data_list[i:i + batch_size]
\*     self.execute(sql_base, params=batch_data)
BatchNext(t) ==
    /\ th[t].pc = "bi_loop"
    /\ LET f == th[t]
           batch_data == Slice(f.bi.data, f.bi.i, f.bi.i + f.bi.k)
       IN th' = [th EXCEPT ![t] =
                   IF f.bi.i < Len(f.bi.data)
                   THEN EnterLoop([Frame0 EXCEPT
                                     !.ctx = "execute",
                                     !.req = [sql |-> "insert", params |-> batch_data,
                                              fetch |-> FALSE, lastrowid |-> FALSE],
                                     !.R = DefaultExecRetries,
                                     !.retries = DefaultExecRetries,
                                     !.delay = retry_backoff_base,
                                     !.bi = [f.bi EXCEPT !.calls = Append(@, batch_data)]],
                                  pool)
                   ELSE [f EXCEPT !.pc = "done",
                                  !.outcome = [kind |-> "result", info |-> <<"", "">>,
                                               value |-> "None"]]]
    /\ UNCHANGED <<pool_size, retry_backoff_base, pool, open, ctor, downFor, callers>>

\* ------------------------------------------------------ close_all_connections
CallCloseAll(t) ==
    /\ ctor.state = "done"
    /\ t \in callers
    /\ th[t].pc \in {"idle", "done"}
    /\ th' = [th EXCEPT ![t] = [Frame0 EXCEPT !.pc = "ca_check", !.ctx = "close_all",
                                              !.before = Obs(Len(pool))]]
    /\ UNCHANGED <<pool_size, retry_backoff_base, pool, open, ctor, downFor, callers>>

\* while not self.pool.empty():
CaCheck(t) ==
    /\ th[t].pc = "ca_check"
    /\ th' = [th EXCEPT ![t] = IF pool # <<>> THEN [th[t] EXCEPT !.pc = "ca_get"]
                                               ELSE Finished(th[t])]
    /\ UNCHANGED <<pool_size, retry_backoff_base, pool, open, ctor, downFor, callers>>

\* CaGet taking the connection off the queue without closing it
CaGetNoClose(t) ==
    /\ th[t].pc = "ca_get"
    /\ pool # <<>>
    /\ pool' = Tail(pool)
    /\ th' = [th EXCEPT ![t].pc = "ca_check"]
    /\ UNCHANGED <<pool_size, retry_backoff_base, open, ctor, downFor, callers>>

\* conn = self.pool.get(); conn.close()
CaGet(t) ==
    /\ th[t].pc = "ca_get"
    /\ pool # <<>>
    /\ pool' = Tail(pool)
    /\ open' = open \ {Head(pool)}
    /\ th' = [th EXCEPT ![t].pc = "ca_check"]
    /\ UNCHANGED <<pool_size, retry_backoff_base, ctor, downFor, callers>>

\* ------------------------------------------------------------ specification
ThreadStep(t) ==
    \/ CallExecute(t) \/ ExRun(t)
    \/ GcGetPingOk(t) \/ GcGetPingFail(t) \/ GcEmptyCheck(t)
    \/ CallGetConn(t) \/ CallCreateConn(t) \/ CallReleaseConn(t)
    \/ CallCloseAll(t) \/ CaCheck(t) \/ CaGet(t)

Next ==
    \/ CtorFill
    \/ CtorDone
    \/ Outage
    \/ \E t \in Threads : ThreadStep(t)

Spec == Init /\ [][Next]_vars

\* the steps a thread takes inside a call: the scheduler runs every thread
\* that can run, and a caller that holds a connection releases it
Progress(t) ==
    \/ ExRun(t)
    \/ GcGetPingOk(t) \/ GcGetPingFail(t) \/ GcEmptyCheck(t)
    \/ CallReleaseConn(t)

\* the pool used through get_conn, execute, create_conn and release_conn only
PoolStep(t) ==
    \/ CallExecute(t) \/ CallGetConn(t) \/ CallCreateConn(t)
    \/ Progress(t)

NextPool ==
    \/ CtorFill
    \/ CtorDone
    \/ Outage
    \/ \E t \in Threads : PoolStep(t)

FairSpec ==
    /\ Init
    /\ [][NextPool]_vars
    /\ WF_vars(CtorFill)
    /\ WF_vars(CtorDone)
    /\ \A t \in Threads : WF_vars(Progress(t))

\* the pool whose connections are obtained through get_conn and execute only
\* (no create_conn by a caller), and closed by close_all_connections
ManagedStep(t) ==
    \/ CallExecute(t) \/ CallGetConn(t)
    \/ Progress(t)
    \/ CallCloseAll(t) \/ CaCheck(t) \/ CaGet(t)

NextManaged ==
    \/ CtorFill
    \/ CtorDone
    \/ Outage
    \/ \E t \in Threads : ManagedStep(t)

ManagedSpec == Init /\ [][NextManaged]_vars

\* one thread drains the pool with close_all_connections while the other
\* threads use it through get_conn and execute
Drainer == "t1"

DrainStep(t) ==
    \/ /\ t = Drainer
       /\ (CallCloseAll(t) \/ CaCheck(t) \/ CaGet(t))
    \/ /\ t # Drainer
       /\ (CallExecute(t) \/ CallGetConn(t) \/ Progress(t))

NextDrain ==
    \/ CtorFill
    \/ CtorDone
    \/ Outage
    \/ \E t \in Threads : DrainStep(t)

DrainSpec == Init /\ [][NextDrain]_vars

\* batch_insert called by one thread on a pool of its own
InitBatch ==
    /\ Init
    /\ callers = {"t1"}
    /\ retry_backoff_base = DefaultBase

BatchStep(t) ==
    \/ CallBatchInsert(t) \/ BatchNext(t)
    \/ ExRun(t)
    \/ GcGetPingOk(t) \/ GcGetPingFail(t) \/ GcEmptyCheck(t)

NextBatch ==
    \/ CtorFill
    \/ CtorDone
    \/ Outage
    \/ \E t \in Threads : BatchStep(t)

BatchSpec == InitBatch /\ [][NextBatch]_vars

\* ------------------------------------------------------------ properties
NoDuplicates(q) == \A i, j \in 1..Len(q) : i # j => q[i] # q[j]
Holding(t) == th[t].pc \in {"ex_run", "hold"}
Returned(t) == th[t].pc = "done"
FactoryUp == downFor < DefaultCreateRetries
Maximum(a, b) == IF a > b THEN a ELSE b

\* C1: every attempt of execute() that obtained a connection from get_conn()
\* passes it to release_conn() exactly once before the attempt ends, whatever
\* the outcome; once a call is over its thread holds no connection, and every
\* open connection is queued or held by a thread inside a call.
C1_ReleaseExactlyOnce ==
    /\ \A t \in Threads :
        /\ th[t].ctx = "execute" => th[t].rel = (IF th[t].got THEN 1 ELSE 0)
        /\ th[t].pc \in {"idle", "done", "gc_get", "gc_empty"} => th[t].conn = None
    /\ open \subseteq (Range(pool) \cup Held)
    /\ NoDuplicates(pool)

C1_Witness ==
    \E t \in Threads :
        /\ Returned(t) /\ th[t].ctx = "execute"
        /\ th[t].got /\ th[t].rel = 1
        /\ th[t].outcome.kind = "Exception"
        /\ th[t].opErrs = 1

\* C2: when every attempt of execute(sql, params, retries=R) fails with a
\* connectivity-class error (pymysql.OperationalError), execute makes at most
\* R attempts, starts each one in get_conn() with no connection in hand while
\* the budget remains, and then raises DatabaseOperationFailed with the sql
\* and params of the call.
C2_RetryThenOperationFailed ==
    \A t \in Threads :
        th[t].ctx = "execute" =>
            /\ Len(th[t].slept) <= th[t].R
            /\ th[t].pc \in {"gc_get", "gc_empty", "ex_run"} =>
                  /\ th[t].retries > 0
                  /\ th[t].opErrs = Len(th[t].slept)
            /\ th[t].pc = "gc_get" => th[t].conn = None
            /\ (Returned(t) /\ ~Concurrent /\ th[t].opErrs = Len(th[t].slept)) =>
                  /\ Len(th[t].slept) = th[t].R
                  /\ th[t].outcome = OperationFailed(th[t].req)

C2_Witness ==
    \E t \in Threads :
        /\ Returned(t) /\ th[t].ctx = "execute"
        /\ th[t].R = MaxRetries /\ th[t].opErrs = MaxRetries
        /\ th[t].outcome = OperationFailed(th[t].req)
        /\ th[t].req.sql = "insert"

\* C3: an attempt that fails with a query-class error (another
\* pymysql.MySQLError) or an unexpected one (any other exception, the
\* DatabaseConnectionError of get_conn included) ends the call there,
\* whatever budget remains: the connection is released, there is no further
\* attempt, and the caller gets a failure.
C3_FatalEndsCall ==
    \A t \in Threads :
        (th[t].ctx = "execute"
          /\ th[t].lastRun \in {"MySQLError", "Exception", "DatabaseConnectionError"}) =>
            /\ Returned(t)
            /\ th[t].conn = None
            /\ th[t].rel = (IF th[t].got THEN 1 ELSE 0)
            /\ Len(th[t].slept) = th[t].opErrs + 1
            /\ th[t].outcome.kind \notin {"none", "result"}

C3_Witness ==
    \E t \in Threads :
        /\ Returned(t) /\ th[t].ctx = "execute"
        /\ th[t].lastRun = "MySQLError"
        /\ th[t].retries > 0
        /\ th[t].got /\ th[t].rel = 1

\* C4 as stated: the failure execute() surfaces for a query-class error is
\* DatabaseOperationFailed carrying the sql and params of the call.
C4_QueryErrorIsOperationFailed ==
    \A t \in Threads :
        (Returned(t) /\ th[t].ctx = "execute" /\ th[t].lastRun = "MySQLError") =>
            th[t].outcome = OperationFailed(th[t].req)

\* C4 amended: for a query-class error execute() re-raises the driver's own
\* pymysql.MySQLError unchanged (no sql or params attached);
\* DatabaseOperationFailed with sql and params is raised only when the retry
\* budget is used up by connectivity-class errors.
C4_QueryErrorReraised ==
    \A t \in Threads :
        (Returned(t) /\ th[t].ctx = "execute") =>
            /\ th[t].lastRun = "MySQLError" =>
                  th[t].outcome = [kind |-> "MySQLError", info |-> <<"", "">>,
                                   value |-> "none"]
            /\ th[t].outcome.kind = "DatabaseOperationFailed" =>
                  /\ th[t].outcome.info = <<th[t].req.sql, th[t].req.params>>
                  /\ th[t].retries = 0
                  /\ th[t].opErrs = th[t].R
                  /\ th[t].lastRun \in {"none", "OperationalError"}

C4_Witness ==
    \E t \in Threads :
        /\ Returned(t) /\ th[t].ctx = "execute"
        /\ th[t].lastRun = "MySQLError"
        /\ th[t].outcome.kind = "MySQLError"

\* C5 as stated: every connection get_conn() returns has passed ping in that
\* same get_conn() call, on every return path.
C5_ReturnedConnWasPinged ==
    \A t \in Threads :
        (Holding(t) /\ th[t].ctx \in {"execute", "direct"}) => th[t].src = "pool"

\* C5 amended: a connection get_conn() returns was either taken from the
\* queue and passed ping in that same call, or was created by create_conn()
\* in that call after a failed probe left the queue empty; the created one is
\* returned without a probe.  Either way it is open.
C5_PingedOrFresh ==
    \A t \in Threads :
        (Holding(t) /\ th[t].ctx \in {"execute", "direct"}) =>
            /\ th[t].src \in {"pool", "factory"}
            /\ th[t].conn \in open
            /\ (th[t].src = "factory" /\ ~Concurrent) => th[t].failed >= 1
            /\ (th[t].src = "pool" /\ ~Concurrent) => th[t].failed < th[t].before

C5_Witness ==
    \E t \in Threads :
        /\ Holding(t) /\ th[t].ctx = "direct"
        /\ th[t].src = "factory"
        /\ th[t].failed = 2

\* C6: under any interleaving a connection is owned by the queue or by one
\* call in flight, never by two: no connection is held by two threads, none
\* is queued and held, none is queued twice.
C6_ExclusiveOwnership ==
    /\ \A t, u \in Threads :
        (t # u /\ th[t].conn # None) => th[t].conn # th[u].conn
    /\ \A t \in Threads : th[t].conn \notin Range(pool)
    /\ NoDuplicates(pool)

C6_Witness ==
    /\ Concurrent
    /\ \A t \in Threads : th[t].pc = "ex_run" /\ th[t].conn # None
    /\ pool = <<>>

\* C7 as stated: a get_conn() waiting for a connection while create_conn()
\* would succeed eventually obtains one (or the factory stops producing),
\* given that every connection checked out is eventually released.
C7_AcquireEventuallyReturns ==
    \A t \in Threads :
        (th[t].pc = "gc_get" /\ FactoryUp) ~> (Holding(t) \/ ~FactoryUp)

\* C8: for every pool_size = N, when __init__ completes the factory has been
\* called N times and the N connections it made are all queued, open and
\* distinct, none held by a caller.
C8_ConstructionFillsPool ==
    /\ ctor.state = "filling" =>
          /\ ctor.i <= pool_size
          /\ Len(pool) = ctor.i
    /\ (ctor.state = "done" /\ \A t \in Threads : th[t].pc = "idle") =>
          /\ ctor.i = pool_size
          /\ Len(pool) = pool_size
          /\ Cardinality(Range(pool)) = pool_size
          /\ open = Range(pool)
          /\ Held = {}

C8_Witness ==
    /\ ctor.state = "done"
    /\ \A t \in Threads : th[t].pc = "idle"
    /\ pool_size = MaxPool
    /\ Len(pool) = MaxPool

\* C9 as stated: get_conn() followed at once by release_conn() of the
\* returned connection leaves as many connections queued as before.
C9_AcquireReleaseKeepsCount ==
    \A t \in Threads :
        (~Concurrent /\ Returned(t) /\ th[t].ctx = "direct" /\ th[t].rel = 1) =>
            Len(pool) = th[t].before

\* C9 amended: get_conn() followed at once by release_conn() leaves the
\* queue with the prior count less the connections whose probe failed in
\* that get_conn() (they are closed and not replaced), but with one when all
\* of them failed; so the count is kept when no probe failed, and never grows.
C9_AcquireReleaseCount ==
    \A t \in Threads :
        (~Concurrent /\ Returned(t) /\ th[t].ctx = "direct" /\ th[t].rel = 1) =>
            /\ Len(pool) = Maximum(th[t].before - th[t].failed, 1)
            /\ th[t].failed = 0 => Len(pool) = th[t].before
            /\ Len(pool) <= th[t].before

C9_Witness ==
    \E t \in Threads :
        /\ ~Concurrent /\ Returned(t) /\ th[t].ctx = "direct" /\ th[t].rel = 1
        /\ th[t].before = 2 /\ th[t].failed = 1
        /\ Len(pool) = 1

C11_DrainClosesQueued ==
    /\ [](\A t \in Threads :
            (~Concurrent /\ Returned(t) /\ th[t].ctx = "close_all") =>
                pool = <<>> /\ open = {} /\ th[t].outcome = NoOutcome)
    /\ [](\A t \in Threads : th[t].pc = "ca_check" => ENABLED CaCheck(t))
    /\ [][\A t \in Threads :
            (th[t].pc \in {"ca_check", "ca_get"} /\ th'[t] # th[t]) =>
                /\ \A u \in Threads \ {t} : th'[u] = th[u]
                /\ Held \subseteq open'
                /\ th[t].pc = "ca_get" =>
                      /\ pool' = Tail(pool)
                      /\ open' = open \ {Head(pool)}
                      /\ Head(pool) \in open
                /\ th[t].pc = "ca_check" =>
                      /\ pool' = pool /\ open' = open
                      /\ (th'[t].pc = "done") = (pool = <<>>)]_vars

C11_Witness ==
    \E t \in Threads :
        /\ ~Concurrent /\ Returned(t) /\ th[t].ctx = "close_all"
        /\ th[t].before = 2
        /\ pool = <<>> /\ open = {}


\* C12 as stated: create_conn(retries=R) makes at most R connect attempts,
\* returns the connection of the first attempt that succeeds, raises
\* DatabaseConnectionError with host and port exactly when all R attempts
\* fail, and never returns without a connection.
C12_CreateConnContract ==
    \A t \in Threads :
        (~Concurrent /\ th[t].ctx = "create") =>
            LET f == th[t]
                returnedConn == f.pc = "hold" \/ f.rel = 1
                allFailed == Len(f.slept) = f.R /\ f.connects = f.R
            IN /\ f.connects <= f.R
               /\ returnedConn => (f.connects = Len(f.slept) + 1)
               /\ (f.outcome = ConnectionError) = (~returnedConn /\ allFailed)
               /\ f.outcome.value # "None"


\* C13 as stated: when an attempt of execute() fails with a query-class error
\* the error reaches the caller with no backoff wait after that attempt: the
\* only waits of the call are those that followed earlier connectivity-class
\* failures, and no further attempt is made.
C13_QueryErrorNoDelay ==
    \A t \in Threads :
        (~Concurrent /\ Returned(t) /\ th[t].ctx = "execute"
          /\ th[t].lastRun = "MySQLError") =>
            /\ Len(th[t].slept) = th[t].opErrs
            /\ th[t].outcome.kind = "MySQLError"


RECURSIVE Concat(_)
Concat(ss) == IF ss = <<>> THEN <<>> ELSE Head(ss) \o Concat(Tail(ss))
Ceil(n, k) == (n + k - 1) \div k

\* C14: batch_insert(table, columns, records, batch_size=k) that returns has
\* issued exactly ceil(len(records)/k) execute() calls, one per contiguous
\* chunk in record order, each of k records except possibly the last, and the
\* chunks concatenated are the records; at any time the calls issued so far
\* are the first chunks of the records.
C14_BatchChunks ==
    \A t \in Threads :
        th[t].bi.active =>
            LET b == th[t].bi
                n == Len(b.data)
                all == Concat(b.calls)
            IN /\ Len(all) <= n
               /\ all = SubSeq(b.data, 1, Len(all))
               /\ Len(b.calls) <= Ceil(n, b.k)
               /\ \A c \in 1..Len(b.calls) :
                    /\ b.calls[c] # <<>>
                    /\ c < Len(b.calls) => Len(b.calls[c]) = b.k
                    /\ Len(b.calls[c]) <= b.k
               /\ (Returned(t) /\ th[t].outcome.kind = "result") =>
                    /\ Len(b.calls) = Ceil(n, b.k)
                    /\ all = b.data

C14_Witness ==
    \E t \in Threads :
        /\ Returned(t) /\ th[t].ctx = "batch_insert"
        /\ th[t].outcome.kind = "result"
        /\ Len(th[t].bi.data) = 5 /\ th[t].bi.k = 2
        /\ Len(th[t].bi.calls) = 3
        /\ Len(th[t].bi.calls[1]) = 2 /\ Len(th[t].bi.calls[2]) = 2
        /\ Len(th[t].bi.calls[3]) = 1


\* C15 as stated: whenever get_conn() met a failed probe while at least one
\* other connection was queued, the connection it returns came from the queue
\* and create_conn() was not invoked.
C15_ProbeFailureReturnsQueued ==
    \A t \in Threads :
        (~Concurrent /\ Holding(t) /\ th[t].failed >= 1 /\ th[t].before >= 2) =>
            th[t].src = "pool"

\* C15 (amended): get_conn() closes every dequeued connection whose probe
\* fails and returns the first dequeued connection that passes the probe,
\* without invoking create_conn(), as long as one of the queued connections
\* passes; when the probes of all queued connections fail, the last of them
\* leaves the queue empty and the connection returned is one create_conn()
\* made. create_conn() is never invoked while the queue is not empty.
C15_ProbeFailureSkipsBroken ==
    /\ [](\A t \in Threads :
            (~Concurrent /\ Holding(t) /\ th[t].ctx \in {"direct", "execute"}) =>
                /\ open = Range(pool) \cup {th[t].conn}
                /\ th[t].conn \notin Range(pool)
                /\ \/ /\ th[t].src = "pool"
                      /\ th[t].failed < th[t].before
                      /\ Len(pool) = th[t].before - th[t].failed - 1
                   \/ /\ th[t].src = "factory"
                      /\ th[t].failed = th[t].before
                      /\ th[t].failed >= 1
                      /\ pool = <<>>)
    /\ [][\A t \in Threads :
            (th[t].pc = "gc_empty" /\ th'[t] # th[t] /\ pool # <<>>) =>
                /\ th'[t].pc = "gc_get"
                /\ open' = open /\ pool' = pool /\ downFor' = downFor]_vars

C15_Witness ==
    \E t \in Threads :
        /\ ~Concurrent /\ Holding(t) /\ th[t].ctx = "direct"
        /\ th[t].before = 2 /\ th[t].failed = 1 /\ th[t].src = "pool"
        /\ pool = <<>> /\ open = {th[t].conn}

\* C16: when the probe of the only queued connection fails, get_conn() closes
\* it and invokes create_conn(); the connection it returns is the one
\* create_conn() made, it is the only open connection and it is not queued:
\* the queue is empty when get_conn() returns, also when create_conn() raised.
C16_LastBrokenFallsBack ==
    \A t \in Threads :
        (~Concurrent /\ th[t].ctx = "direct" /\ th[t].before = 1
           /\ th[t].failed = 1) =>
            /\ Holding(t) =>
                /\ th[t].src = "factory"
                /\ open = {th[t].conn}
                /\ pool = <<>>
            /\ (Returned(t) /\ th[t].rel = 0) =>
                /\ th[t].outcome = ConnectionError
                /\ pool = <<>>
                /\ open = {}

C16_Witness ==
    \E t \in Threads :
        /\ ~Concurrent /\ Holding(t) /\ th[t].ctx = "direct"
        /\ th[t].before = 1 /\ th[t].failed = 1 /\ th[t].src = "factory"
        /\ pool = <<>> /\ open = {th[t].conn}


\* b to the n-th power and equality, for fractions <<numerator, denominator>>
Pow(b, n) == <<b[1] ^ n, b[2] ^ n>>
SameFraction(a, b) == a[1] * b[2] = b[1] * a[2]
One == <<1, 1>>
\* the wait after the i-th failed attempt (i = 0, 1, ...) is
\* retry_backoff_base * retry_backoff_base^i
Geometric(slept) ==
    \A j \in 1..Len(slept) :
        SameFraction(slept[j], Mul(retry_backoff_base, Pow(retry_backoff_base, j - 1)))
Increasing(slept) == \A j \in 1..(Len(slept) - 1) : Less(slept[j], slept[j + 1])

\* C17 as stated: the waits of one execute() call grow geometrically and are
\* strictly increasing, and every retry is preceded by a wait.
C17_WaitsGrowStrictly ==
    \A t \in Threads :
        th[t].ctx = "execute" =>
            /\ Geometric(th[t].slept)
            /\ Increasing(th[t].slept)
            /\ th[t].pc \in {"gc_get", "gc_empty", "ex_run"} =>
                    Len(th[t].slept) = th[t].R - th[t].retries

\* C17 (amended): the wait after the i-th failed attempt is
\* retry_backoff_base * retry_backoff_base^i and every retry is preceded by a
\* wait (attempt number j starts after j - 1 waits); the waits are strictly
\* increasing when retry_backoff_base > 1 and never increase otherwise.
C17_GeometricWaits ==
    \A t \in Threads :
        th[t].ctx = "execute" =>
            /\ Geometric(th[t].slept)
            /\ Less(One, retry_backoff_base) => Increasing(th[t].slept)
            /\ ~Less(One, retry_backoff_base) =>
                    \A j \in 1..(Len(th[t].slept) - 1) :
                        ~Less(th[t].slept[j], th[t].slept[j + 1])
            /\ th[t].pc \in {"gc_get", "gc_empty", "ex_run"} =>
                    Len(th[t].slept) = th[t].R - th[t].retries

C17_Witness ==
    \E t \in Threads :
        /\ Returned(t) /\ th[t].ctx = "execute"
        /\ retry_backoff_base = <<3, 2>>
        /\ th[t].slept = << <<3, 2>>, <<9, 4>> >>
        /\ th[t].outcome.kind = "result"


\* connections the pool manages: queued plus checked out
Managed == Len(pool) + Cardinality(Held)
\* threads inside get_conn between conn.close() of a failed probe and the
\* test of pool.empty(): each has closed one connection and may replace it
Replacing == {t \in Threads : th[t].pc = "gc_empty"}
Committed == Managed + Cardinality(Replacing)

\* C18: with connections obtained through get_conn()/execute() only, the
\* number of managed connections (queued + checked out) never exceeds
\* pool_size under any interleaving; counting a connection closed after a
\* failed probe until its get_conn() decides whether to replace it, the number
\* never increases after construction: a fallback connection is created only
\* by a thread that closed one, and only when the queue is empty. So
\* release_conn() never finds the queue full and never closes a connection.
C18_ManagedBounded ==
    /\ [](Managed <= Committed /\ Committed <= pool_size)
    /\ [](Cardinality(open) <= pool_size)
    /\ [](\A t \in Threads : Holding(t) => Len(pool) < pool_size)
    /\ [][ctor.state = "done" => Committed' <= Committed]_vars
    /\ [][\A t \in Threads :
            /\ (Holding(t) /\ th'[t] # th[t]) =>
                    /\ open' = open
                    /\ pool' = Append(pool, th[t].conn)
            /\ (th[t].pc = "gc_empty" /\ th'[t].conn # None) =>
                    /\ pool = <<>>
                    /\ Managed' = Managed + 1]_vars

C18_Witness ==
    \E t, u \in Threads :
        /\ t # u /\ Concurrent
        /\ Holding(t) /\ Holding(u)
        /\ th[t].src = "factory"
        /\ pool_size = 2 /\ Managed = 2 /\ pool = <<>>


C20_DrainNeverStranded ==
    ~ /\ th[Drainer].pc = "ca_get"
      /\ pool = <<>>
      /\ open = {}
      /\ Held = {}
      /\ \A u \in Threads \ {Drainer} : th[u].pc \in {"idle", "done"}

====
